---- MODULE Spec2Model ----
(***************************************************************************)
(* State-machine model of src/index.js: the Express relay that mints       *)
(* opaque session tokens after a Google OAuth2 code exchange               *)
(* (/auth/google/callback), keeps them in the in-memory userTokens map,    *)
(* gates the /api/* routes on them (isAuthenticated) and forwards Drive    *)
(* listing and Sheets read/append/update calls to the vendor SDK.          *)
(*                                                                         *)
(* Node runs every handler atomically up to its next await; the model has  *)
(* one action for each such segment.  One callback handler (cb) and one    *)
(* gated handler (rq) may be in flight at a time and interleave at every   *)
(* await.  Vendor replies are chosen nondeterministically.                 *)
(***************************************************************************)
EXTENDS Integers, Sequences, FiniteSets, TLC

VARIABLES
    oauth2Client,   \* TRUE iff the module-level OAuth2 client was constructed
    userTokens,     \* the session map: access token -> Google credential pair
    cb,             \* the /auth/google/callback handler in flight
    rq,             \* the gated /api/* handler in flight
    issued          \* history: the tokens shown by success pages so far

vars == <<oauth2Client, userTokens, cb, rq, issued>>

----------------------------------------------------------------------------
(* Bounds of the model *)

\* a Drive listing has at most MaxPages pages
MaxPages == 3

----------------------------------------------------------------------------
(* JavaScript values: tagged so that truthiness and Array.isArray can be   *)
(* computed as the engine computes them                                    *)

JsUndefined == [t |-> "undefined"]
JsNull == [t |-> "null"]
JsStr(s) == [t |-> "string", s |-> s]
JsArr(a) == [t |-> "array", a |-> a]

\* ToBoolean: undefined, null and '' are falsy; every array is truthy
Truthy(v) ==
    CASE v.t = "undefined" -> FALSE
      [] v.t = "null" -> FALSE
      [] v.t = "string" -> v.s # ""
      [] v.t = "array" -> TRUE

IsArray(v) == v.t = "array"

\* a || b
JsOr(a, b) == IF Truthy(a) THEN a ELSE b

----------------------------------------------------------------------------
(* Strings that the code takes apart are sequences of characters *)

StartsWith(s, p) == Len(s) >= Len(p) /\ SubSeq(s, 1, Len(p)) = p

\* String.prototype.substring(k)
Substring(s, k) == IF k >= Len(s) THEN << >> ELSE SubSeq(s, k + 1, Len(s))

Digits36 ==
    << "0", "1", "2", "3", "4", "5", "6", "7", "8", "9", "a", "b",
       "c", "d", "e", "f", "g", "h", "i", "j", "k", "l", "m", "n",
       "o", "p", "q", "r", "s", "t", "u", "v", "w", "x", "y", "z" >>

\* Number.prototype.toString(36) of a non-negative integer
RECURSIVE IntToString36(_)
IntToString36(n) ==
    IF n < 36 THEN << Digits36[n + 1] >>
    ELSE IntToString36(n \div 36) \o << Digits36[(n % 36) + 1] >>

\* Number.prototype.toString(36) of a fraction in [0,1), given by its
\* base-36 fractional digits (<< >> is 0, which prints as "0")
FracToString36(ds) ==
    IF ds = << >> THEN << "0" >>
    ELSE << "0", "." >> \o [i \in 1..Len(ds) |-> Digits36[ds[i] + 1]]

\* the values Math.random() returns here, as base-36 fractional digits
RandomValues == { << 10 >>, << 11 >> }

\* the values Date.now() returns here
ClockValues == { 1 }

generateAccessToken(rnd, now) ==
    Substring(FracToString36(rnd), 2) \o IntToString36(now)

Tokens == { generateAccessToken(r, n) : r \in RandomValues, n \in ClockValues }

\* the credential pairs oauth2Client.getToken can return
Pairs == { "pair1", "pair2" }

\* the messages of the errors the vendor SDK throws
VendorErrors == { "invalid_grant", "quotaExceeded" }

BearerPrefix == << "B", "e", "a", "r", "e", "r", " " >>

\* req.headers.authorization when absent (undefined and '' are both falsy)
NoHeader == << >>

\* the Authorization headers of the requests: none, the bare scheme, a
\* lower-case scheme, and "Bearer <t>" for every token the server can mint
\* (an unknown identifier is a token that was not minted yet)
Headers ==
    { NoHeader,
      BearerPrefix,
      << "b", "e", "a", "r", "e", "r", " ", "a", "1" >> }
    \cup { BearerPrefix \o k : k \in Tokens }

AuthUrl == "http://localhost:3000/auth/google"

NoClient == "none"
NoResponse == [status |-> 0]

\* a set that drops the other records
MapSet_Fresh(m, k, v) == [x \in {k} |-> v]

\* Map.prototype.set
MapSet(m, k, v) == [x \in DOMAIN m \cup {k} |-> IF x = k THEN v ELSE m[x]]

EmptyMap == [x \in {} |-> "none"]

----------------------------------------------------------------------------
(* GET /auth/google/callback *)

CbIdle == [pc |-> "idle", code |-> JsUndefined, error |-> JsUndefined,
           calls |-> 0, replies |-> << >>, res |-> NoResponse]

CodeInputs == { JsUndefined, JsStr(""), JsStr("4/0Ab") }
ErrorInputs == { JsUndefined, JsStr("access_denied") }

\* the handler up to the await of oauth2Client.getToken(code)
Callback ==
    \E code \in CodeInputs, error \in ErrorInputs :
        /\ cb.pc # "exchanging"
        /\ LET c == [CbIdle EXCEPT !.code = code, !.error = error] IN
           cb' = IF Truthy(error)
                   THEN [c EXCEPT !.pc = "done",
                           !.res = [status |-> 400,
                                    body |-> [text |-> "Authentication error"]]]
                 ELSE IF ~Truthy(code)
                   THEN [c EXCEPT !.pc = "done",
                           !.res = [status |-> 400,
                                    body |-> [text |-> "No authorization code received"]]]
                 ELSE IF ~oauth2Client
                   THEN [c EXCEPT !.pc = "done",
                           !.res = [status |-> 500,
                                    body |-> [text |-> "Server configuration error"]]]
                 ELSE [c EXCEPT !.pc = "exchanging", !.calls = 1]
        /\ UNCHANGED <<oauth2Client, userTokens, rq, issued>>

\* getToken resolved: mint a token, store the pair under it, show the token
CallbackExchanged ==
    \E tokens \in Pairs, rnd \in RandomValues, now \in ClockValues :
        /\ cb.pc = "exchanging"
        /\ LET accessToken == generateAccessToken(rnd, now) IN
           /\ userTokens' = MapSet(userTokens, accessToken, tokens)
           /\ cb' = [cb EXCEPT !.pc = "done",
                               !.replies = << [ok |-> TRUE, tokens |-> tokens] >>,
                               !.res = [status |-> 200,
                                        body |-> [html |-> "Authentication Successful",
                                                  token |-> accessToken]]]
           /\ issued' = issued \cup {accessToken}
        /\ UNCHANGED <<oauth2Client, rq>>

\* a catch block that tries the exchange once more before it gives up
CallbackExchangeFailed_Retry ==
    \E m \in VendorErrors :
        /\ cb.pc = "exchanging"
        /\ cb' = IF cb.calls < 2
                   THEN [cb EXCEPT !.calls = @ + 1]
                 ELSE [cb EXCEPT !.pc = "done",
                            !.replies = << [ok |-> FALSE, message |-> m] >>,
                            !.res = [status |-> 500,
                                     body |-> [html |-> "Authentication Failed",
                                               message |-> m]]]
        /\ UNCHANGED <<oauth2Client, userTokens, rq, issued>>

\* getToken rejected: the catch block
CallbackExchangeFailed ==
    \E m \in VendorErrors :
        /\ cb.pc = "exchanging"
        /\ cb' = [cb EXCEPT !.pc = "done",
                            !.replies = << [ok |-> FALSE, message |-> m] >>,
                            !.res = [status |-> 500,
                                     body |-> [html |-> "Authentication Failed",
                                               message |-> m]]]
        /\ UNCHANGED <<oauth2Client, userTokens, rq, issued>>

----------------------------------------------------------------------------
(* The gated routes: isAuthenticated, then the route's handler *)

Routes == { "drive", "read", "write", "update", "test" }

\* a request as it arrives; the fields after header are what the middleware
\* and the handler add (calls and replies log the vendor operations)
NewRequest(route, header) ==
    [pc |-> "arrived", route |-> route, header |-> header,
     spreadsheetId |-> JsUndefined, range |-> JsUndefined, values |-> JsUndefined,
     nextCalled |-> FALSE, googleClient |-> NoClient,
     allFiles |-> << >>, pageToken |-> JsNull,
     calls |-> << >>, replies |-> << >>, res |-> NoResponse]

RqIdle == [NewRequest("test", NoHeader) EXCEPT !.pc = "idle"]

Respond(r, status, body) ==
    [r EXCEPT !.pc = "done", !.res = [status |-> status, body |-> body]]

\* the gate without the return of line 92: an unknown token goes on to next()
isAuthenticated_NoLookup(r) ==
    IF r.header = NoHeader \/ ~StartsWith(r.header, BearerPrefix)
      THEN Respond(r, 401,
             [error |-> "User not authenticated. Please connect your account via the plugin.",
              authUrl |-> AuthUrl])
    ELSE LET token == Substring(r.header, 7) IN
         [r EXCEPT !.nextCalled = TRUE,
                   !.googleClient = IF token \in DOMAIN userTokens
                                      THEN userTokens[token] ELSE NoClient]

isAuthenticated(r) ==
    IF r.header = NoHeader \/ ~StartsWith(r.header, BearerPrefix)
      THEN Respond(r, 401,
             [error |-> "User not authenticated. Please connect your account via the plugin.",
              authUrl |-> AuthUrl])
    ELSE LET token == Substring(r.header, 7) IN
         IF token \notin DOMAIN userTokens
           THEN Respond(r, 401,
                  [error |-> "Invalid or expired token. Please reconnect your account.",
                   authUrl |-> AuthUrl])
         ELSE [r EXCEPT !.nextCalled = TRUE, !.googleClient = userTokens[token]]

\* a vendor call issued with the module-level client instead of the request's
CallVendor_SharedClient(r, op, params) ==
    [r EXCEPT !.pc = "await",
              !.calls = Append(@, [op |-> op, auth |-> NoClient,
                                   params |-> params])]

\* a vendor call is issued with the request's client and the handler awaits it
CallVendor(r, op, params) ==
    [r EXCEPT !.pc = "await",
              !.calls = Append(@, [op |-> op, auth |-> r.googleClient,
                                   params |-> params])]

----------------------------------------------------------------------------
(* GET /api/drive/files *)

File1 == [id |-> "1", name |-> "a.txt"]
File2 == [id |-> "2", name |-> "b.txt"]

\* response.data.files of a page
PageFiles ==
    { JsUndefined, JsArr(<< File1, File2 >>), JsArr(<< File2, File1 >>) }

\* response.data.nextPageToken of a page
MorePages == { JsStr("t1") }
LastPage == { JsUndefined, JsStr("") }

DriveList(r) ==
    CallVendor(r, "drive.files.list",
               [pageSize |-> 1000, fields |-> "nextPageToken, files(id, name)",
                pageToken |-> JsOr(r.pageToken, JsUndefined)])

\* files.concat(allFiles)
Concat_Prepend(allFiles, files) == files \o allFiles

\* allFiles.concat(files)
Concat(allFiles, files) == allFiles \o files

\* the body of the do-while after the await, and its loop test
DrivePage(r, data) ==
    LET r1 == [r EXCEPT !.replies = Append(@, [ok |-> TRUE, data |-> data]),
                        !.allFiles = IF Truthy(data.files)
                                       THEN Concat(@, data.files.a) ELSE @,
                        !.pageToken = data.nextPageToken]
    IN IF Truthy(r1.pageToken) THEN DriveList(r1)
       ELSE Respond(r1, 200, [array |-> r1.allFiles])

\* a catch block that sends what was accumulated along with the error
DriveFailed_Partial(r, m) ==
    Respond([r EXCEPT !.replies = Append(@, [ok |-> FALSE, message |-> m])],
            500, [error |-> "Failed to retrieve files from Google Drive.",
                  files |-> r.allFiles])

\* the catch block of the listing
DriveFailed(r, m) ==
    Respond([r EXCEPT !.replies = Append(@, [ok |-> FALSE, message |-> m])],
            500, [error |-> "Failed to retrieve files from Google Drive."])

DriveFiles ==
    \E h \in Headers :
        /\ rq.pc \in {"idle", "done"}
        /\ LET g == isAuthenticated(NewRequest("drive", h))
           IN rq' = IF g.nextCalled THEN DriveList(g) ELSE g
        /\ UNCHANGED <<oauth2Client, userTokens, cb, issued>>

DriveListResolved ==
    /\ rq.pc = "await" /\ rq.route = "drive"
    /\ \E files \in PageFiles,
          next \in (IF Len(rq.calls) < MaxPages THEN MorePages ELSE {}) \cup LastPage :
          rq' = DrivePage(rq, [files |-> files, nextPageToken |-> next])
    /\ UNCHANGED <<oauth2Client, userTokens, cb, issued>>

DriveListRejected ==
    /\ rq.pc = "await" /\ rq.route = "drive"
    /\ \E m \in VendorErrors : rq' = DriveFailed(rq, m)
    /\ UNCHANGED <<oauth2Client, userTokens, cb, issued>>

----------------------------------------------------------------------------
(* GET /api/sheets/read *)

\* req.query of a read: spreadsheetId and range
QueryInputs ==
    { [spreadsheetId |-> JsStr("id1"), range |-> JsStr("Sheet1!A1")],
      [spreadsheetId |-> JsUndefined, range |-> JsStr("Sheet1!A1")],
      [spreadsheetId |-> JsStr("id1"), range |-> JsUndefined] }

Row == JsArr(<< JsStr("a"), JsStr("b") >>)

\* response.data.values of a read
ReadValues == { JsUndefined, JsArr(<< Row >>) }

SheetsReadHandler(g, query) ==
    LET r == [g EXCEPT !.spreadsheetId = query.spreadsheetId,
                       !.range = query.range] IN
    IF ~Truthy(r.spreadsheetId) \/ ~Truthy(r.range)
      THEN Respond(r, 400,
             [error |-> "Missing required parameters: spreadsheetId and range."])
    ELSE CallVendor(r, "sheets.spreadsheets.values.get",
                    [spreadsheetId |-> r.spreadsheetId, range |-> r.range])

SheetsReadDone(r, data) ==
    Respond([r EXCEPT !.replies = Append(@, [ok |-> TRUE, data |-> data])],
            200, [array |-> JsOr(data.values, JsArr(<< >>))])

SheetsReadFailed(r, m) ==
    Respond([r EXCEPT !.replies = Append(@, [ok |-> FALSE, message |-> m])],
            500, [error |-> "Failed to retrieve data from Google Sheets."])

SheetsRead ==
    \E h \in Headers :
        /\ rq.pc \in {"idle", "done"}
        /\ LET g == isAuthenticated(NewRequest("read", h))
           IN IF g.nextCalled
                THEN \E query \in QueryInputs : rq' = SheetsReadHandler(g, query)
              ELSE rq' = g
        /\ UNCHANGED <<oauth2Client, userTokens, cb, issued>>

SheetsGetResolved ==
    /\ rq.pc = "await" /\ rq.route = "read"
    /\ \E v \in ReadValues : rq' = SheetsReadDone(rq, [values |-> v])
    /\ UNCHANGED <<oauth2Client, userTokens, cb, issued>>

SheetsGetRejected ==
    /\ rq.pc = "await" /\ rq.route = "read"
    /\ \E m \in VendorErrors : rq' = SheetsReadFailed(rq, m)
    /\ UNCHANGED <<oauth2Client, userTokens, cb, issued>>

----------------------------------------------------------------------------
(* POST /api/sheets/write and PUT /api/sheets/update *)

\* req.body.values
ValuesInputs ==
    { JsUndefined, JsStr("not-an-array"), JsArr(<< >>), JsArr(<< Row >>),
      JsArr(<< JsStr("x") >>), JsArr(<< Row, JsStr("x") >>),
      JsArr(<< Row, Row >>) }

\* req.body of a write or an update: spreadsheetId, range and values
BodyInputs ==
    { [spreadsheetId |-> JsStr("id1"), range |-> JsStr("Sheet1!A1"), values |-> v] :
        v \in ValuesInputs }
    \cup { [spreadsheetId |-> JsUndefined, range |-> JsStr("Sheet1!A1"),
            values |-> JsArr(<< Row >>)],
          [spreadsheetId |-> JsStr("id1"), range |-> JsUndefined,
            values |-> JsArr(<< Row >>)] }

\* response.data of an append or an update
WriteData == { [updatedRange |-> "Sheet1!A2:B2"] }

MissingBody(r) ==
    Respond(r, 400,
        [error |-> "Missing required body parameters.",
         received |-> [spreadsheetId |-> r.spreadsheetId, range |-> r.range,
                       values |-> r.values],
         expected |-> "spreadsheetId, range, values"])

Not2DArray(r) ==
    Respond(r, 400,
        [error |-> "Values must be a 2D array", received |-> r.values,
         example |-> "[[Row1Col1, Row1Col2], [Row2Col1, Row2Col2]]"])

\* a test of values that looks at no row
WriteValuesAccepted_ArrayOnly(values) == IsArray(values)

\* the test of line 331 that lets values through
WriteValuesAccepted(values) ==
    ~(~IsArray(values) \/ (Len(values.a) > 0 /\ ~IsArray(values.a[1])))

\* the test of line 392 that lets values through
UpdateValuesAccepted(values) ==
    ~(~IsArray(values) \/ (Len(values.a) > 0 /\ ~IsArray(values.a[1])))

SheetsWriteHandler(g, body) ==
    LET r == [g EXCEPT !.spreadsheetId = body.spreadsheetId,
                       !.range = body.range, !.values = body.values] IN
    IF ~Truthy(r.spreadsheetId) \/ ~Truthy(r.range) \/ ~Truthy(r.values)
      THEN MissingBody(r)
    ELSE IF ~WriteValuesAccepted(r.values) THEN Not2DArray(r)
    ELSE CallVendor(r, "sheets.spreadsheets.values.append",
                    [spreadsheetId |-> r.spreadsheetId, range |-> r.range,
                     valueInputOption |-> "USER_ENTERED",
                     resource |-> [values |-> r.values]])

SheetsUpdateHandler(g, body) ==
    LET r == [g EXCEPT !.spreadsheetId = body.spreadsheetId,
                       !.range = body.range, !.values = body.values] IN
    IF ~Truthy(r.spreadsheetId) \/ ~Truthy(r.range) \/ ~Truthy(r.values)
      THEN MissingBody(r)
    ELSE IF ~UpdateValuesAccepted(r.values) THEN Not2DArray(r)
    ELSE CallVendor(r, "sheets.spreadsheets.values.update",
                    [spreadsheetId |-> r.spreadsheetId, range |-> r.range,
                     valueInputOption |-> "USER_ENTERED",
                     resource |-> [values |-> r.values]])

SheetsWriteDone(r, data) ==
    Respond([r EXCEPT !.replies = Append(@, [ok |-> TRUE, data |-> data])],
            200, [data |-> data])

SheetsWriteFailed(r, m) ==
    Respond([r EXCEPT !.replies = Append(@, [ok |-> FALSE, message |-> m])],
            500, [error |-> "Failed to write data to Google Sheets.",
                  details |-> m])

SheetsUpdateDone(r, data) ==
    Respond([r EXCEPT !.replies = Append(@, [ok |-> TRUE, data |-> data])],
            200, [data |-> data])

SheetsUpdateFailed(r, m) ==
    Respond([r EXCEPT !.replies = Append(@, [ok |-> FALSE, message |-> m])],
            500, [error |-> "Failed to update data in Google Sheets.",
                  details |-> m])

SheetsWrite ==
    \E h \in Headers :
        /\ rq.pc \in {"idle", "done"}
        /\ LET g == isAuthenticated(NewRequest("write", h))
           IN IF g.nextCalled
                THEN \E body \in BodyInputs : rq' = SheetsWriteHandler(g, body)
              ELSE rq' = g
        /\ UNCHANGED <<oauth2Client, userTokens, cb, issued>>

SheetsUpdate ==
    \E h \in Headers :
        /\ rq.pc \in {"idle", "done"}
        /\ LET g == isAuthenticated(NewRequest("update", h))
           IN IF g.nextCalled
                THEN \E body \in BodyInputs : rq' = SheetsUpdateHandler(g, body)
              ELSE rq' = g
        /\ UNCHANGED <<oauth2Client, userTokens, cb, issued>>

SheetsAppendResolved ==
    /\ rq.pc = "await" /\ rq.route = "write"
    /\ \E d \in WriteData : rq' = SheetsWriteDone(rq, d)
    /\ UNCHANGED <<oauth2Client, userTokens, cb, issued>>

SheetsAppendRejected ==
    /\ rq.pc = "await" /\ rq.route = "write"
    /\ \E m \in VendorErrors : rq' = SheetsWriteFailed(rq, m)
    /\ UNCHANGED <<oauth2Client, userTokens, cb, issued>>

SheetsUpdateResolved ==
    /\ rq.pc = "await" /\ rq.route = "update"
    /\ \E d \in WriteData : rq' = SheetsUpdateDone(rq, d)
    /\ UNCHANGED <<oauth2Client, userTokens, cb, issued>>

SheetsUpdateRejected ==
    /\ rq.pc = "await" /\ rq.route = "update"
    /\ \E m \in VendorErrors : rq' = SheetsUpdateFailed(rq, m)
    /\ UNCHANGED <<oauth2Client, userTokens, cb, issued>>

----------------------------------------------------------------------------
(* GET /api/test *)

ApiTestHandler(r) ==
    Respond(r, 200,
        [message |-> "Authentication successful! You can now use Google Sheets and Drive."])

ApiTest ==
    \E h \in Headers :
        /\ rq.pc \in {"idle", "done"}
        /\ LET g == isAuthenticated(NewRequest("test", h))
           IN rq' = IF g.nextCalled THEN ApiTestHandler(g) ELSE g
        /\ UNCHANGED <<oauth2Client, userTokens, cb, issued>>

----------------------------------------------------------------------------

Init ==
    /\ oauth2Client \in BOOLEAN
    /\ userTokens = EmptyMap
    /\ cb = CbIdle
    /\ rq = RqIdle
    /\ issued = {}

Next ==
    \/ Callback
    \/ CallbackExchanged
    \/ CallbackExchangeFailed
    \/ DriveFiles
    \/ DriveListResolved
    \/ DriveListRejected
    \/ SheetsRead
    \/ SheetsGetResolved
    \/ SheetsGetRejected
    \/ SheetsWrite
    \/ SheetsAppendResolved
    \/ SheetsAppendRejected
    \/ SheetsUpdate
    \/ SheetsUpdateResolved
    \/ SheetsUpdateRejected
    \/ ApiTest

Spec == Init /\ [][Next]_vars

----------------------------------------------------------------------------
(* Properties *)

\* a step in which a gated request arrives (rq' is that request after the
\* middleware and the first segment of its handler)
Arrival == rq.pc \in {"idle", "done"} /\ rq' # rq

\* header h is "Bearer <k>" for no key k of the session map
NamesNoSession(h) == \A k \in DOMAIN userTokens : h # BearerPrefix \o k

AllOk(replies) == \A i \in 1..Len(replies) : replies[i].ok
SomeFailed(replies) == \E i \in 1..Len(replies) : ~replies[i].ok

\* C1: a request to any gated route whose Authorization header is absent,
\* does not start with "Bearer " or names no key of the session map is
\* answered 401 with a body holding error and authUrl; next() is not called
\* (no parameter validation) and no vendor call is made.
C1_GateRejects ==
    [][(Arrival /\ NamesNoSession(rq'.header)) =>
          /\ rq'.pc = "done"
          /\ rq'.res.status = 401
          /\ {"error", "authUrl"} \subseteq DOMAIN rq'.res.body
          /\ ~rq'.nextCalled
          /\ rq'.calls = << >>]_vars

C1_Witness ==
    /\ rq.pc = "done" /\ rq.route = "write" /\ rq.res.status = 401
    /\ rq.header = BearerPrefix \o << "b", "1" >>
    /\ DOMAIN userTokens = { << "a", "1" >> }

\* the step in which a callback stores a pair under s
StoreStep(s) ==
    /\ cb.pc = "exchanging" /\ cb'.pc = "done" /\ cb'.replies[1].ok
    /\ cb'.res.body.token = s
    /\ userTokens'[s] = cb'.replies[1].tokens

\* C2: no step removes a record; the pair under s changes only in a step
\* that stores under s, and then to the pair stored; a gated request that
\* names s gets a client with the pair the map holds for s.
C2_ResolveLatest ==
    [][/\ \A s \in DOMAIN userTokens :
            /\ s \in DOMAIN userTokens'
            /\ userTokens'[s] # userTokens[s] => StoreStep(s)
       /\ \A s \in DOMAIN userTokens' \ DOMAIN userTokens : StoreStep(s)
       /\ \A s \in DOMAIN userTokens :
            (Arrival /\ rq'.header = BearerPrefix \o s) =>
                rq'.nextCalled /\ rq'.googleClient = userTokens[s]]_vars

C2_Witness ==
    /\ rq.nextCalled /\ rq.header = BearerPrefix \o << "a", "1" >>
    /\ rq.googleClient = "pair2"
    /\ DOMAIN userTokens = { << "a", "1" >>, << "b", "1" >> }
    /\ userTokens[<< "a", "1" >>] = "pair2"
    /\ userTokens[<< "b", "1" >>] = "pair1"

\* C3: the token a successful callback mints is no key of the session map
\* at the time it is stored.
C3_MintedTokenUnique ==
    [][(cb.pc = "exchanging" /\ cb'.pc = "done" /\ cb'.res.status = 200) =>
          cb'.res.body.token \notin DOMAIN userTokens]_vars

\* the files of a page, as the listing takes them
PageFilesOf(reply) ==
    IF IsArray(reply.data.files) THEN reply.data.files.a ELSE << >>

RECURSIVE FilesInFetchOrder(_)
FilesInFetchOrder(replies) ==
    IF replies = << >> THEN << >>
    ELSE FilesInFetchOrder(SubSeq(replies, 1, Len(replies) - 1))
           \o PageFilesOf(replies[Len(replies)])

\* C4: in a Drive listing at most one fetch is outstanding, the first fetch
\* passes no cursor and every later one the cursor of the page before it,
\* the listing ends at the first page without a cursor, and when every
\* fetch succeeded the response is 200 with the pages' files in fetch order.
C4_ListingConcatenates ==
    (rq.route = "drive" /\ rq.nextCalled) =>
        LET n == Len(rq.replies) IN
        /\ Len(rq.calls) = n + (IF rq.pc = "await" THEN 1 ELSE 0)
        /\ rq.calls[1].params.pageToken = JsUndefined
        /\ \A i \in 2..Len(rq.calls) :
              /\ rq.replies[i - 1].ok
              /\ Truthy(rq.replies[i - 1].data.nextPageToken)
              /\ rq.calls[i].params.pageToken = rq.replies[i - 1].data.nextPageToken
        /\ (rq.pc = "done" /\ AllOk(rq.replies)) =>
              /\ ~Truthy(rq.replies[n].data.nextPageToken)
              /\ rq.res = [status |-> 200,
                           body |-> [array |-> FilesInFetchOrder(rq.replies)]]

C4_Witness ==
    /\ rq.route = "drive" /\ rq.pc = "done" /\ rq.res.status = 200
    /\ Len(rq.replies) = 3
    /\ rq.res.body.array = << File1, File2, File2, File1, File1, File2 >>

\* C5: a Drive listing one of whose fetches failed has ended with a 500
\* whose body holds the error message only; the failed fetch is its last
\* fetch (nothing fetched after it, no retry).
C5_ListingFailsWhole ==
    (rq.route = "drive" /\ SomeFailed(rq.replies)) =>
        /\ rq.pc = "done"
        /\ rq.res.status = 500
        /\ DOMAIN rq.res.body = {"error"}
        /\ Len(rq.calls) = Len(rq.replies)
        /\ \A i \in 1..(Len(rq.replies) - 1) : rq.replies[i].ok

C5_Witness ==
    /\ rq.route = "drive" /\ rq.pc = "done" /\ rq.res.status = 500
    /\ Len(rq.replies) = 3 /\ ~rq.replies[3].ok
    /\ Len(rq.allFiles) = 4

\* C6: an authenticated write or update whose values is no array, or is an
\* array whose first row is no array, ends with 400 and no vendor call.
C6_BadShapeRejected ==
    (/\ rq.route \in {"write", "update"} /\ rq.nextCalled
     /\ \/ ~IsArray(rq.values)
        \/ (Len(rq.values.a) > 0 /\ ~IsArray(rq.values.a[1]))) =>
        rq.pc = "done" /\ rq.res.status = 400 /\ rq.calls = << >>

C6_Witness ==
    /\ rq.route = "write" /\ rq.nextCalled /\ rq.pc = "done"
    /\ rq.values = JsArr(<< JsStr("x") >>)
    /\ rq.res.status = 400

\* C7: a Sheets read, write or update whose vendor call failed has ended
\* with a 500 whose body holds a fixed error message and the vendor's
\* message, after exactly one vendor call.
C7_SheetsFailureCarriesMessage ==
    (rq.route \in {"read", "write", "update"} /\ SomeFailed(rq.replies)) =>
        /\ rq.pc = "done"
        /\ rq.res.status = 500
        /\ {"error", "details"} \subseteq DOMAIN rq.res.body
        /\ rq.res.body.details = rq.replies[1].message
        /\ Len(rq.calls) = 1

\* C8: a callback whose exchange fails ends with 500 after one exchange and
\* leaves the session map as it was; a callback without a code ends with 400
\* and no exchange; the map changes only when an exchange succeeded.
C8_FailedExchangeStoresNothing ==
    [][/\ (cb.pc = "exchanging" /\ cb' # cb /\ SomeFailed(cb'.replies)) =>
            /\ cb'.pc = "done" /\ cb'.res.status = 500
            /\ cb'.calls = 1
            /\ userTokens' = userTokens
       /\ (cb.pc = "exchanging" /\ cb' # cb) => cb'.pc = "done" /\ cb'.calls = 1
       /\ (cb.pc # "exchanging" /\ cb' # cb /\ ~Truthy(cb'.code)) =>
            /\ cb'.pc = "done" /\ cb'.res.status = 400
            /\ cb'.calls = 0
            /\ userTokens' = userTokens
       /\ userTokens' # userTokens =>
            /\ cb.pc = "exchanging" /\ cb'.pc = "done"
            /\ AllOk(cb'.replies) /\ cb'.res.status = 200]_vars

C8_Witness ==
    /\ cb.pc = "done" /\ cb.res.status = 500 /\ cb.calls = 1
    /\ SomeFailed(cb.replies)
    /\ DOMAIN userTokens = { << "a", "1" >> }

\* C9: a Drive listing requested while the session map is empty gets 401
\* with error and authUrl; one requested with "Bearer <id>" for an id that a
\* success page has shown passes the gate with a client holding the pair
\* stored under id, makes every vendor call with that client, and ends with
\* 200 and the file array when every fetch succeeded.
C9_EndToEnd ==
    [][/\ (Arrival /\ rq'.route = "drive" /\ userTokens = EmptyMap) =>
            /\ rq'.res.status = 401
            /\ DOMAIN rq'.res.body = {"error", "authUrl"}
       /\ \A id \in issued :
            (Arrival /\ rq'.route = "drive" /\ rq'.header = BearerPrefix \o id) =>
                /\ rq'.nextCalled
                /\ rq'.googleClient = userTokens[id]
                /\ Len(rq'.calls) = 1
       /\ (rq'.route = "drive" /\ rq'.nextCalled) =>
            /\ \A i \in 1..Len(rq'.calls) : rq'.calls[i].auth = rq'.googleClient
            /\ (rq'.pc = "done" /\ AllOk(rq'.replies)) =>
                  rq'.res.status = 200 /\ DOMAIN rq'.res.body = {"array"}]_vars

C9_Witness ==
    /\ rq.route = "drive" /\ rq.pc = "done" /\ rq.res.status = 200
    /\ Len(rq.calls) = 2 /\ Len(rq.res.body.array) = 4
    /\ rq.header = BearerPrefix \o << "a", "1" >>
    /\ issued = { << "a", "1" >>, << "b", "1" >> }
    /\ cb.pc = "exchanging"

\* C10: a write or an update reaches the vendor only with a values array
\* every element of which is an array.
C10_EveryRowChecked ==
    (rq.route \in {"write", "update"} /\ rq.calls # << >>) =>
        /\ IsArray(rq.values)
        /\ \A i \in 1..Len(rq.values.a) : IsArray(rq.values.a[i])

====
